---- MODULE Spec2Model ----
(***************************************************************************)
(* A model of the Car Audio Events MCP server: the FastAPI endpoint layer  *)
(* (mcp-server/main.py) and the Supabase data shim                         *)
(* (mcp-server/services/supabase_service.py).                              *)
(*                                                                         *)
(* A request is handled in one step (the dependency, the payload           *)
(* validation and the handler body together); its response stays in the    *)
(* state until it is delivered.  The endpoint layer keeps nothing else.    *)
(***************************************************************************)
EXTENDS Integers, Sequences, FiniteSets, Bags, TLC

VARIABLES
    expected_token,   \* os.getenv("MCP_API_TOKEN", ...), main.py:54
    clock,            \* the wall clock read by datetime.now()
    phase,            \* "idle", or "done" while a response awaits delivery
    request,          \* the request being answered
    response,         \* its response: status, headers, body
    log,              \* the logger calls made while answering it
    bearer_refusal,   \* the status HTTPBearer refuses with in this build
    supabase_url,     \* os.getenv("VITE_SUPABASE_URL") at construction
    supabase_key,     \* os.getenv("SUPABASE_SERVICE_ROLE_KEY") at construction
    client,           \* SupabaseService.client: None in mock mode
    shim_phase,       \* "idle", or "done" while a shim call's outcome is held
    shim_call,        \* the shim operation called and its arguments
    remote,           \* what the remote store held and did during the call
    remote_calls,     \* the tables on which the call ran .execute(), in order
    result,           \* the call's outcome: a returned value or a raised error
    listed,           \* a client's memory: the last listing it was sent
    created,          \* a client's memory: the last record created since
    ctor,             \* CarAudioEventsAgent(...): the arguments of the call
    constructed,      \* "no", "yes", or the error __init__ raised
    llm,              \* self.llm: the chat model built
    built,            \* the runtime objects __init__ built, in order
    sessions,         \* self.client.sessions: the servers with an open session
    closes,           \* close() calls made, and close_all_sessions() calls
    inflight,         \* "none", or "run" / "stream" while one is in flight
    chunks,           \* the chunks the runtime produces for this stream
    ending,           \* how the runtime ends it: exhausted, or an error
    cursor,           \* chunks the stream has taken and finished with
    stage,            \* where stream is suspended: "loop" or "messages"
    yielded,          \* the items stream has yielded to its consumer
    completion        \* how the run or stream ended, once it has

apiVars == <<expected_token, bearer_refusal, phase, request, response, log>>
shimVars ==
    <<supabase_url, supabase_key, client, shim_phase, shim_call, remote,
      remote_calls, result>>
observerVars == <<listed, created>>
initVars == <<ctor, constructed, llm, built>>
streamVars ==
    <<inflight, chunks, ending, cursor, stage, yielded, completion>>
agentVars == <<initVars, sessions, closes, streamVars>>
vars == <<clock, apiVars, shimVars, observerVars, agentVars>>

\* ------------------------------------------------------------------ bounds

MaxClock == 2      \* clock readings 0..MaxClock
MaxOmitted == 2    \* fields a request body may leave out
MaxLimit == 3      \* the largest ?limit= tried (there are two seeded events)
MaxMetrics == 2    \* the longest explicit metrics list tried
MaxRows == 2       \* rows the remote store holds during one shim call

\* ----------------------------------------------------------------- values

None == "None"                      \* Python's None in a string-typed slot
NoCredentials == "NoCredentials"    \* no usable Authorization: Bearer header
DefaultToken == "car-audio-events-mcp-token"
Tokens == {DefaultToken, "other-token"}
Credentials == Tokens \cup {NoCredentials}

Min(a, b) == IF a < b THEN a ELSE b
Max(a, b) == IF a > b THEN a ELSE b
Range(s) == {s[i] : i \in DOMAIN s}
EmptyDict == [k \in {} |-> None]

\* A dict literal {**a, **b}: the keys of both, b's value where both have one.
Merge(a, b) ==
    [k \in (DOMAIN a) \cup (DOMAIN b) |-> IF k \in DOMAIN b THEN b[k] ELSE a[k]]

Restrict(d, keys) == [k \in (DOMAIN d) \cap keys |-> d[k]]

\* Python truthiness of an Optional[str]: None and "" are both false.
Truthy(x) == x # None /\ x # ""

BoundedSeq(S, n) == UNION {[1..k -> S] : k \in 0..n}

\* datetime.now().timestamp() and .isoformat()/.strftime of a clock reading.
Timestamp(t) == <<"timestamp", t>>
IsoFormat(t) == <<"isoformat", t>>
YearMonthDay(t) == <<"%Y-%m-%d", t>>

\* ---------------------------------------------------------- payload models

EventCreateRequired ==
    {"name", "event_type", "start_date", "end_date", "location", "venue_name",
     "early_bird_price", "regular_price"}
EventCreateDefaults == [max_competitors |-> 100, description |-> None]

CompetitorRegistrationRequired ==
    {"event_id", "competitor_name", "email", "phone", "vehicle_info", "class_id"}
CompetitorRegistrationDefaults == [team_name |-> None]

EventAnalyticsRequired == {}
EventAnalyticsDefaults ==
    [event_id |-> None, start_date |-> None, end_date |-> None,
     metrics |-> <<"registrations", "revenue", "attendance">>]

PaymentProcessRequired == {"registration_id", "amount", "payment_method"}
PaymentProcessDefaults == [currency |-> "USD", metadata |-> None]

SupportTicketRequired ==
    {"subject", "description", "category", "user_email"}
SupportTicketDefaults == [priority |-> "medium", attachments |-> None]

\* ------------------------------------------------------------------ routes

GetRoot == "GET /"
GetHealth == "GET /health"
PostEvents == "POST /api/events"
GetEvents == "GET /api/events"
PostRegistrations == "POST /api/registrations"
PostAnalytics == "POST /api/analytics"
PostPayments == "POST /api/payments"
PostSupport == "POST /api/support"

\* The routes declared with Depends(verify_token).
AuthenticatedRoutes ==
    {PostEvents, PostRegistrations, PostAnalytics, PostPayments, PostSupport}
CreateRoutes == {PostEvents, PostRegistrations, PostPayments, PostSupport}

RequiredFields(route) ==
    CASE route = PostEvents -> EventCreateRequired
      [] route = PostRegistrations -> CompetitorRegistrationRequired
      [] route = PostAnalytics -> EventAnalyticsRequired
      [] route = PostPayments -> PaymentProcessRequired
      [] route = PostSupport -> SupportTicketRequired
      [] OTHER -> {}

Defaults(route) ==
    CASE route = PostEvents -> EventCreateDefaults
      [] route = PostRegistrations -> CompetitorRegistrationDefaults
      [] route = PostAnalytics -> EventAnalyticsDefaults
      [] route = PostPayments -> PaymentProcessDefaults
      [] route = PostSupport -> SupportTicketDefaults
      [] OTHER -> EmptyDict

\* ------------------------------------------------------- request framework

Response(status, headers, body) ==
    [status |-> status, headers |-> headers, body |-> body]
NoResponse == Response(0, {}, EmptyDict)
NoRequest ==
    [route |-> "", credentials |-> NoCredentials, body |-> EmptyDict,
     query |-> EmptyDict]

\* raise HTTPException(status_code, detail, headers)
HTTPException(status, detail, headers) ==
    Response(status, headers, [detail |-> detail])

\* security = HTTPBearer(): with auto_error left on, a request without usable
\* bearer credentials is refused before verify_token is called.  The status is
\* FastAPI's: 403 "Not authenticated" in the releases up to 0.121, 401 with a
\* WWW-Authenticate: Bearer challenge from 0.122 on; the repository pins no
\* release, so bearer_refusal ranges over both.
BearerRefusals == {401, 403}
HTTPBearer(req) ==
    IF req.credentials # NoCredentials
    THEN NoResponse
    ELSE IF bearer_refusal = 401
         THEN HTTPException(401, "Not authenticated",
                            {<<"WWW-Authenticate", "Bearer">>})
         ELSE HTTPException(403, "Not authenticated", {})

verify_token(req) ==
    IF req.credentials # expected_token
    THEN HTTPException(401, "Invalid authentication credentials",
                       {<<"WWW-Authenticate", "Bearer">>})
    ELSE NoResponse

\* Mutant: the payload model declares every field optional.
ValidationErrors_none(route, body) == {}

\* The required fields of the route's payload model that the body lacks.
ValidationErrors(route, body) == RequiredFields(route) \ DOMAIN body

\* The parsed payload model: the body's fields over the model's defaults; a
\* field the model does not declare is ignored.
ParseModel(route, body) ==
    Restrict(Merge(Defaults(route), body),
             RequiredFields(route) \cup DOMAIN Defaults(route))

\* except Exception as e: logger.error(...); raise HTTPException(500, str(e))
InternalError(what, e) ==
    [response |-> HTTPException(500, e, {}), log |-> <<<<"error", what>>>>]
Ok(body, logged) ==
    [response |-> Response(200, {}, body), log |-> logged]

\* ---------------------------------------------------------------- handlers

\* An attribute the parsed model lacks raises AttributeError inside the try.
AttributeError(fields) == <<"AttributeError", fields>>

root(t) ==
    Ok([message |-> "Car Audio Events MCP Server",
        status |-> "operational",
        timestamp |-> IsoFormat(t),
        endpoints |-> [events |-> "/api/events",
                       registrations |-> "/api/registrations",
                       analytics |-> "/api/analytics",
                       payments |-> "/api/payments",
                       support |-> "/api/support"]],
       <<>>)

health_check(t) ==
    Ok([status |-> "healthy",
        timestamp |-> IsoFormat(t),
        service |-> "Car Audio Events MCP Server"],
       <<>>)

\* Mutant: the identifier is made from the event's name too.
create_event_id_from_name(event, t) ==
    LET reads == {"name", "event_type", "start_date", "end_date", "location",
                  "venue_name"}
    IN  IF ~(reads \subseteq DOMAIN event)
        THEN InternalError("Error creating event",
                           AttributeError(reads \ DOMAIN event))
        ELSE Ok([success |-> TRUE,
                 message |-> <<"Event created successfully", event.name>>,
                 event |-> [id |-> <<"evt_", Timestamp(t), event.name>>,
                            name |-> event.name,
                            type |-> event.event_type,
                            start_date |-> event.start_date,
                            end_date |-> event.end_date,
                            location |-> event.location,
                            venue |-> event.venue_name,
                            status |-> "draft",
                            created_at |-> IsoFormat(t)]],
                <<<<"info", "Creating event", event.name>>>>)

create_event(event, t) ==
    LET reads == {"name", "event_type", "start_date", "end_date", "location",
                  "venue_name"}
    IN  IF ~(reads \subseteq DOMAIN event)
        THEN InternalError("Error creating event",
                           AttributeError(reads \ DOMAIN event))
        ELSE Ok([success |-> TRUE,
                 message |-> <<"Event created successfully", event.name>>,
                 event |-> [id |-> <<"evt_", Timestamp(t)>>,
                            name |-> event.name,
                            type |-> event.event_type,
                            start_date |-> event.start_date,
                            end_date |-> event.end_date,
                            location |-> event.location,
                            venue |-> event.venue_name,
                            status |-> "draft",
                            created_at |-> IsoFormat(t)]],
                <<<<"info", "Creating event", event.name>>>>)

\* The two events list_events fetches, main.py:194-213.
SeededEvents ==
    << [id |-> "evt_001", name |-> "Summer Bass Championship 2025",
        type |-> "SPL", start_date |-> "2025-06-15", location |-> "Miami, FL",
        status |-> "published", registrations |-> 45],
       [id |-> "evt_002", name |-> "SQ Masters Series",
        type |-> "SQ", start_date |-> "2025-07-20", location |-> "Atlanta, GA",
        status |-> "published", registrations |-> 32] >>

\* Python's events[:limit]: a negative limit counts from the end.
SlicePrefix(s, limit) ==
    IF limit >= 0
    THEN SubSeq(s, 1, Min(limit, Len(s)))
    ELSE SubSeq(s, 1, Max(Len(s) + limit, 0))

\* Mutant: the limit is taken before the filters are applied.
list_events_limit_first(query) ==
    LET first == SlicePrefix(SeededEvents, query.limit)
        byStatus == IF Truthy(query.status)
                    THEN SelectSeq(first, LAMBDA e : e.status = query.status)
                    ELSE first
        events == IF Truthy(query.event_type)
                  THEN SelectSeq(byStatus, LAMBDA e : e.type = query.event_type)
                  ELSE byStatus
    IN  Ok([success |-> TRUE, count |-> Len(events), events |-> events], <<>>)

\* Mutant: count is the number of events returned.
list_events_counts_returned(query) ==
    LET byStatus == IF Truthy(query.status)
                    THEN SelectSeq(SeededEvents,
                                   LAMBDA e : e.status = query.status)
                    ELSE SeededEvents
        events == IF Truthy(query.event_type)
                  THEN SelectSeq(byStatus, LAMBDA e : e.type = query.event_type)
                  ELSE byStatus
    IN  Ok([success |-> TRUE,
            count |-> Len(SlicePrefix(events, query.limit)),
            events |-> SlicePrefix(events, query.limit)],
           <<>>)

\* Mutant: an event created since the last listing is counted.
list_events_remembering(query) ==
    LET byStatus == IF Truthy(query.status)
                    THEN SelectSeq(SeededEvents,
                                   LAMBDA e : e.status = query.status)
                    ELSE SeededEvents
        events == IF Truthy(query.event_type)
                  THEN SelectSeq(byStatus, LAMBDA e : e.type = query.event_type)
                  ELSE byStatus
        kept == IF created # <<>> /\ "event" \in DOMAIN created[1].body
                THEN 1 ELSE 0
    IN  Ok([success |-> TRUE,
            count |-> Len(events) + kept,
            events |-> SlicePrefix(events, query.limit)],
           <<>>)

list_events(query) ==
    LET byStatus == IF Truthy(query.status)
                    THEN SelectSeq(SeededEvents,
                                   LAMBDA e : e.status = query.status)
                    ELSE SeededEvents
        events == IF Truthy(query.event_type)
                  THEN SelectSeq(byStatus, LAMBDA e : e.type = query.event_type)
                  ELSE byStatus
    IN  Ok([success |-> TRUE,
            count |-> Len(events),
            events |-> SlicePrefix(events, query.limit)],
           <<>>)

register_competitor(registration, t) ==
    LET reads == {"competitor_name", "event_id", "email", "class_id"}
    IN  IF ~(reads \subseteq DOMAIN registration)
        THEN InternalError("Error creating registration",
                           AttributeError(reads \ DOMAIN registration))
        ELSE Ok([success |-> TRUE,
                 message |-> "Registration created successfully",
                 registration |->
                     [id |-> <<"reg_", Timestamp(t)>>,
                      event_id |-> registration.event_id,
                      competitor |-> registration.competitor_name,
                      email |-> registration.email,
                      class |-> registration.class_id,
                      status |-> "pending_payment",
                      created_at |-> IsoFormat(t)]],
                <<<<"info", "Registering", registration.competitor_name>>>>)

\* The three simulated metric blocks of get_analytics, main.py:285-311.
SimulatedMetrics ==
    [registrations |-> [total |-> 156, growth |-> "+12%",
                        by_class |-> [SPL |-> 89, SQ |-> 45, Show |-> 22]],
     revenue |-> [total |-> 15600, average_per_event |-> 3120,
                  by_payment_method |-> [stripe |-> 12000, paypal |-> 3600]],
     attendance |-> [total_attendees |-> 450, average_per_event |-> 90,
                     retention_rate |-> "78%"]]

\* Mutant: the registrations block is filled in whatever was requested.
get_analytics_always_registrations(req, t) ==
    LET requested == {m \in DOMAIN SimulatedMetrics : m \in Range(req.metrics)}
    IN  Ok([success |-> TRUE,
            analytics |->
                [period |-> [start |-> "2025-01-01", end |-> YearMonthDay(t)],
                 metrics |-> Restrict(SimulatedMetrics,
                                      requested \cup {"registrations"})]],
           <<<<"info", "Fetching analytics", req.metrics>>>>)

get_analytics(req, t) ==
    LET reads == {"metrics", "start_date", "end_date"}
        requested == {m \in DOMAIN SimulatedMetrics : m \in Range(req.metrics)}
    IN  IF ~(reads \subseteq DOMAIN req)
        THEN InternalError("Error fetching analytics",
                           AttributeError(reads \ DOMAIN req))
        ELSE Ok([success |-> TRUE,
                 analytics |->
                     [period |->
                          [start |-> IF Truthy(req.start_date)
                                     THEN req.start_date ELSE "2025-01-01",
                           end |-> IF Truthy(req.end_date)
                                   THEN req.end_date ELSE YearMonthDay(t)],
                      metrics |-> Restrict(SimulatedMetrics, requested)]],
                <<<<"info", "Fetching analytics", req.metrics>>>>)

\* Mutant: the payment envelope is returned without its success flag.
process_payment_no_flag(payment, t) ==
    Ok([message |-> "Payment processed successfully",
        payment |-> [id |-> <<"pay_", Timestamp(t)>>,
                     registration_id |-> payment.registration_id,
                     amount |-> payment.amount,
                     currency |-> payment.currency,
                     status |-> "succeeded",
                     payment_method |-> payment.payment_method,
                     processed_at |-> IsoFormat(t)]],
       <<<<"info", "Processing payment", payment.amount>>>>)

\* Mutant: a payment above 50 is left pending.
process_payment_large_pending(payment, t) ==
    LET reads == {"amount", "currency", "payment_method", "registration_id"}
    IN  IF ~(reads \subseteq DOMAIN payment)
        THEN InternalError("Error processing payment",
                           AttributeError(reads \ DOMAIN payment))
        ELSE Ok([success |-> TRUE,
                 message |-> "Payment processed successfully",
                 payment |-> [id |-> <<"pay_", Timestamp(t)>>,
                              registration_id |-> payment.registration_id,
                              amount |-> payment.amount,
                              currency |-> payment.currency,
                              status |-> IF payment.amount > 50 THEN "pending"
                                         ELSE "succeeded",
                              payment_method |-> payment.payment_method,
                              processed_at |-> IsoFormat(t)]],
                <<<<"info", "Processing payment", payment.amount>>>>)

process_payment(payment, t) ==
    LET reads == {"amount", "currency", "payment_method", "registration_id"}
    IN  IF ~(reads \subseteq DOMAIN payment)
        THEN InternalError("Error processing payment",
                           AttributeError(reads \ DOMAIN payment))
        ELSE Ok([success |-> TRUE,
                 message |-> "Payment processed successfully",
                 payment |-> [id |-> <<"pay_", Timestamp(t)>>,
                              registration_id |-> payment.registration_id,
                              amount |-> payment.amount,
                              currency |-> payment.currency,
                              status |-> "succeeded",
                              payment_method |-> payment.payment_method,
                              processed_at |-> IsoFormat(t)]],
                <<<<"info", "Processing payment", payment.amount>>>>)

create_support_ticket(ticket, t) ==
    LET reads == {"subject", "description", "priority", "category",
                  "user_email"}
    IN  IF ~(reads \subseteq DOMAIN ticket)
        THEN InternalError("Error creating support ticket",
                           AttributeError(reads \ DOMAIN ticket))
        ELSE Ok([success |-> TRUE,
                 message |-> "Support ticket created successfully",
                 ticket |-> [id |-> <<"tkt_", Timestamp(t)>>,
                             subject |-> ticket.subject,
                             description |-> ticket.description,
                             priority |-> ticket.priority,
                             category |-> ticket.category,
                             status |-> "open",
                             created_by |-> ticket.user_email,
                             created_at |-> IsoFormat(t)]],
                <<<<"info", "Creating support ticket", ticket.subject>>>>)

\* The handler body of a route, given the parsed payload.
Handler(route, model, query, t) ==
    CASE route = GetRoot -> root(t)
      [] route = GetHealth -> health_check(t)
      [] route = PostEvents -> create_event(model, t)
      [] route = GetEvents -> list_events(query)
      [] route = PostRegistrations -> register_competitor(model, t)
      [] route = PostAnalytics -> get_analytics(model, t)
      [] route = PostPayments -> process_payment(model, t)
      [] route = PostSupport -> create_support_ticket(model, t)

\* FastAPI's handling of one request: the route's dependency is solved first
\* (an HTTPException it raises is the response), then the declared payload is
\* validated (422 with the errors), then the handler body runs.
Serve(req, t) ==
    LET refused == IF req.route \in AuthenticatedRoutes
                   THEN IF HTTPBearer(req) # NoResponse
                        THEN HTTPBearer(req)
                        ELSE verify_token(req)
                   ELSE NoResponse
        errors == ValidationErrors(req.route, req.body)
    IN  IF refused # NoResponse
        THEN [response |-> refused, log |-> <<>>]
        ELSE IF errors # {}
        THEN [response |-> Response(422, {}, [detail |-> errors]),
              log |-> <<>>]
        ELSE Handler(req.route, ParseModel(req.route, req.body), req.query, t)

\* ------------------------------------------------------------------ inputs

Omissions(fields) == {om \in SUBSET fields : Cardinality(om) <= MaxOmitted}
Without(payload, om) == Restrict(payload, (DOMAIN payload) \ om)

EventPayloads ==
    { [name |-> "Summer Bass Championship 2025", event_type |-> "SPL",
       start_date |-> "2025-06-15", end_date |-> "2025-06-16",
       location |-> "Miami, FL", venue_name |-> "Miami Convention Center",
       max_competitors |-> 200, early_bird_price |-> 50,
       regular_price |-> 75, description |-> "Bass"],
      [name |-> "Winter Bass Wars 2025", event_type |-> "SQ",
       start_date |-> "2025-12-07", end_date |-> "2025-12-08",
       location |-> "Chicago, IL", venue_name |-> "United Center",
       max_competitors |-> 150, early_bird_price |-> 45,
       regular_price |-> 65, description |-> "", status |-> "published"] }

RegistrationPayloads ==
    { [event_id |-> "evt_001", competitor_name |-> "John Doe",
       email |-> "john@example.com", phone |-> "555-0100",
       vehicle_info |-> [make |-> "Honda"], class_id |-> "spl-1",
       team_name |-> "Team Bass"],
      [event_id |-> "evt_002", competitor_name |-> "Jane Roe",
       email |-> "jane@example.com", phone |-> "555-0101",
       vehicle_info |-> EmptyDict, class_id |-> "sq-2",
       team_name |-> None] }

MetricNames == {"registrations", "revenue", "attendance", "satisfaction"}
AnalyticsPayloads ==
    { [event_id |-> "evt_001", start_date |-> "2025-06-01",
       end_date |-> "2025-06-30", metrics |-> m]
        : m \in BoundedSeq(MetricNames, MaxMetrics) }

PaymentPayloads ==
    { [registration_id |-> "reg_001", amount |-> 50, currency |-> "EUR",
       payment_method |-> "stripe", metadata |-> [note |-> "early bird"]],
      [registration_id |-> "reg_002", amount |-> 75, currency |-> "USD",
       payment_method |-> "paypal", metadata |-> None,
       status |-> "failed"] }

TicketPayloads ==
    { [subject |-> "Payment page", description |-> "It does not load",
       priority |-> "high", category |-> "payment_issues",
       user_email |-> "john@example.com",
       attachments |-> <<"https://example.com/a.png">>],
      [subject |-> "Login", description |-> "Password reset",
       priority |-> "whenever", category |-> "account",
       user_email |-> "jane@example.com", attachments |-> None] }

\* GET /api/events?status=..&event_type=..&limit=..; "" is ?status= given empty.
StatusParams == {None, "", "published", "draft"}
TypeParams == {None, "", "SPL", "SQ", "Show"}
LimitParams == (-1) .. MaxLimit
EventQueries ==
    [status : StatusParams, event_type : TypeParams, limit : LimitParams]

\* ============================================================ the data shim
\* services/supabase_service.py.  The remote store is not part of the program:
\* what it holds and whether it fails are inputs of each call.

Client == "Client"                  \* a client made by create_client(url, key)
NoFault == "ok"
Errors == {"ConnectionError", "APIError"}
NoDate == 0                         \* a date argument that is None or ""
NoLimit == <<>>                     \* a query without .limit(n)
AllColumns == {"*"}                 \* select('*')

\* SupabaseService.__init__: mock mode unless both settings are truthy.
SupabaseService_init(url, key) ==
    IF ~Truthy(url) \/ ~Truthy(key) THEN None ELSE Client

\* The outcome of a call: a returned value, a returned None, a raised error.
Returned(v) == [kind |-> "return", value |-> v]
ReturnedNone == [kind |-> "none"]
Raised(e) == [kind |-> "raise", error |-> e]
NoResult == [kind |-> "idle"]

\* ---------------------------------------------------- the remote store
\* A table's rows are a bag; response.data is a bag too (the remote fixes no
\* order).  Dates are day numbers.

EventIds == {"evt_a", "evt_b"}
Times == {1, 2}
Price(event_id) == IF event_id = "evt_a" THEN 10 ELSE 25

EventRow(id, status, event_type) ==
    [table |-> "events", id |-> id, status |-> status,
     event_type |-> event_type]
RegistrationRow(event_id, created_at) ==
    [table |-> "registrations", event_id |-> event_id, user_id |-> "user_1",
     status |-> "confirmed", created_at |-> created_at]
\* A payment with the event of its registration, the column the revenue query
\* names 'registration.event_id'.
PaymentRow(event_id, created_at, status) ==
    ("table" :> "payments") @@ ("registration.event_id" :> event_id)
        @@ ("created_at" :> created_at) @@ ("status" :> status)
        @@ ("amount" :> Price(event_id)) @@ ("payment_method" :> "stripe")
CheckInRow(event_id, checked_in_at) ==
    [table |-> "event_check_ins", event_id |-> event_id,
     checked_in_at |-> checked_in_at]

RECURSIVE SumOver(_, _, _)
\* The sum of weight[r] * copies of r in bag, over the rows r of the set.
SumOver(bag, rows, weight) ==
    IF rows = {} THEN 0
    ELSE LET r == CHOOSE x \in rows : TRUE
         IN  bag[r] * weight[r] + SumOver(bag, rows \ {r}, weight)

Len_(bag) == SumOver(bag, DOMAIN bag, [r \in DOMAIN bag |-> 1])

\* self.client.table(name).select(columns[, count='exact'])
Table(name, columns, count) ==
    [table |-> name, columns |-> columns, count |-> count, filters |-> <<>>,
     limit |-> NoLimit]
Eq(query, column, value) ==
    [query EXCEPT !.filters = Append(@, <<"eq", column, value>>)]
\* Mutant: the lower bound leaves out the rows that equal it.
Gte_exclusive(query, column, value) ==
    [query EXCEPT !.filters = Append(@, <<"gt", column, value>>)]

Gte(query, column, value) ==
    [query EXCEPT !.filters = Append(@, <<"gte", column, value>>)]
Lte(query, column, value) ==
    [query EXCEPT !.filters = Append(@, <<"lte", column, value>>)]
Limit(query, n) == [query EXCEPT !.limit = <<n>>]

Passes(row, filter) ==
    CASE filter[1] = "eq" -> row[filter[2]] = filter[3]
      [] filter[1] = "gte" -> row[filter[2]] >= filter[3]
      [] filter[1] = "lte" -> row[filter[2]] <= filter[3]
      [] filter[1] = "gt" -> row[filter[2]] > filter[3]

\* The rows of the query's table that pass all its filters.
Matching(store, query) ==
    LET rows == {r \in DOMAIN store :
                     /\ r["table"] = query.table
                     /\ \A i \in DOMAIN query.filters :
                            Passes(r, query.filters[i])}
    IN  [r \in rows |-> store[r]]

\* The selected columns of each row.
Project(bag, columns) ==
    IF columns = AllColumns THEN bag
    ELSE LET out == {Restrict(r, columns) : r \in DOMAIN bag}
         IN  [p \in out |->
                 SumOver(bag, {r \in DOMAIN bag : Restrict(r, columns) = p},
                         [r \in DOMAIN bag |-> 1])]

\* The pages a limit may yield: any n of the matching rows, all if fewer.
Limited(bag, n) ==
    {page \in SubBag(bag) : Len_(page) = Min(Max(n, 0), Len_(bag))}

\* query.execute() on a remote holding store: the error if it fails, else
\* the reply.  page is the remote's choice where the query has a limit.
Execute(query, store, fault, page) ==
    IF fault # NoFault THEN Raised(fault)
    ELSE LET matching == Matching(store, query)
             data == Project(IF query.limit = NoLimit THEN matching ELSE page,
                             query.columns)
         IN  Returned(IF query.count = "exact"
                      THEN [data |-> data, count |-> Len_(matching)]
                      ELSE [data |-> data])

\* table(name).insert(data).execute(): echo says whether the remote returns
\* the inserted row.
Insert(data, fault, echo) ==
    IF fault # NoFault THEN Raised(fault)
    ELSE Returned([data |-> IF echo THEN SetToBag({data}) ELSE EmptyBag])

\* response.data[0] if response.data else None
FirstOrNone(reply) ==
    IF reply.data = EmptyBag THEN ReturnedNone
    ELSE Returned(CHOOSE r \in DOMAIN reply.data : TRUE)

\* What the remote did during one call.
Environment(store, faults, echo, page) ==
    [store |-> store, faults |-> faults, echo |-> echo, page |-> page]
NoRemote == Environment(EmptyBag, <<>>, FALSE, EmptyBag)
Fault(env, i) == IF i \in DOMAIN env.faults THEN env.faults[i] ELSE NoFault

\* ------------------------------------------------------- mock responses

mock_event_response(event_data, t) ==
    Merge(Merge([id |-> <<"evt_mock_", Timestamp(t)>>], event_data),
          [created_at |-> IsoFormat(t), updated_at |-> IsoFormat(t)])

mock_events_list ==
    << [id |-> "evt_001", name |-> "Mock Bass Championship",
        event_type |-> "SPL", start_date |-> "2025-06-15",
        location |-> "Miami, FL", status |-> "published"],
       [id |-> "evt_002", name |-> "Mock SQ Masters",
        event_type |-> "SQ", start_date |-> "2025-07-20",
        location |-> "Atlanta, GA", status |-> "published"] >>

mock_event_by_id(event_id) ==
    [id |-> event_id, name |-> "Mock Event", event_type |-> "SPL",
     start_date |-> "2025-06-15", location |-> "Mock City, ST",
     status |-> "published"]

\* Mutant: the caller's data is merged last.
mock_registration_response_data_last(registration_data, t) ==
    Merge(Merge([id |-> <<"reg_mock_", Timestamp(t)>>],
                [status |-> "pending_payment", created_at |-> IsoFormat(t)]),
          registration_data)

mock_registration_response(registration_data, t) ==
    Merge(Merge([id |-> <<"reg_mock_", Timestamp(t)>>], registration_data),
          [status |-> "pending_payment", created_at |-> IsoFormat(t)])

mock_registrations_list ==
    << [id |-> "reg_001", event_id |-> "evt_001",
        competitor_name |-> "John Doe", status |-> "confirmed"] >>

mock_analytics_data ==
    [registrations |-> [total |-> 156, data |-> EmptyBag],
     revenue |-> [total |-> 15600, transaction_count |-> 156,
                  data |-> EmptyBag],
     attendance |-> [total_checked_in |-> 145, data |-> EmptyBag]]

mock_payment_response(payment_data, t) ==
    Merge(Merge([id |-> <<"pay_mock_", Timestamp(t)>>], payment_data),
          [status |-> "succeeded", processed_at |-> IsoFormat(t)])

mock_ticket_response(ticket_data, t) ==
    Merge(Merge([id |-> <<"tkt_mock_", Timestamp(t)>>], ticket_data),
          [status |-> "open", created_at |-> IsoFormat(t)])

\* ---------------------------------------------------------- operations
\* Each yields the call's result and the tables on which it ran .execute().

Outcome(res, calls) == [result |-> res, calls |-> calls]

\* try: ... response.data[0] if response.data else None; except: raise
InsertOutcome(table, data, env) ==
    LET reply == Insert(data, Fault(env, 1), env.echo)
    IN  Outcome(IF reply.kind = "raise" THEN reply
                ELSE FirstOrNone(reply.value),
                <<table>>)

SupabaseService_create_event(event_data, t, env) ==
    IF client = None
    THEN Outcome(Returned(mock_event_response(event_data, t)), <<>>)
    ELSE InsertOutcome("events", event_data, env)

get_events_query(status, event_type, limit) ==
    LET q0 == Table("events", AllColumns, None)
        q1 == IF Truthy(status) THEN Eq(q0, "status", status) ELSE q0
        q2 == IF Truthy(event_type) THEN Eq(q1, "event_type", event_type)
              ELSE q1
    IN  Limit(q2, limit)

\* Mutant: the mock list is cut to the limit.
get_events_mock_limited(status, event_type, limit, env) ==
    IF client = None
    THEN Outcome(Returned(SubSeq(mock_events_list, 1,
                                 Min(limit, Len(mock_events_list)))),
                 <<>>)
    ELSE LET reply == Execute(get_events_query(status, event_type, limit),
                                 env.store, Fault(env, 1), env.page)
         IN  Outcome(IF reply.kind = "raise" THEN reply
                     ELSE Returned(reply.value.data),
                     <<"events">>)

SupabaseService_get_events(status, event_type, limit, env) ==
    IF client = None
    THEN Outcome(Returned(mock_events_list), <<>>)
    ELSE LET reply == Execute(get_events_query(status, event_type, limit),
                                 env.store, Fault(env, 1), env.page)
         IN  Outcome(IF reply.kind = "raise" THEN reply
                     ELSE Returned(reply.value.data),
                     <<"events">>)

get_event_by_id_query(event_id) ==
    Eq(Table("events", AllColumns, None), "id", event_id)

SupabaseService_get_event_by_id(event_id, env) ==
    IF client = None
    THEN Outcome(Returned(mock_event_by_id(event_id)), <<>>)
    ELSE LET reply == Execute(get_event_by_id_query(event_id), env.store,
                                 Fault(env, 1), EmptyBag)
         IN  Outcome(IF reply.kind = "raise" THEN reply
                     ELSE FirstOrNone(reply.value),
                     <<"events">>)

SupabaseService_create_registration(registration_data, t, env) ==
    IF client = None
    THEN Outcome(Returned(mock_registration_response(registration_data, t)),
                 <<>>)
    ELSE InsertOutcome("registrations", registration_data, env)

\* Mutant: the registrations are queried without looking at the mode.
get_registrations_always_remote(event_id, user_id, status, env) ==
    LET reply == Execute(Table("registrations", AllColumns, None), env.store,
                            Fault(env, 1), EmptyBag)
    IN  Outcome(IF reply.kind = "raise" THEN reply
                ELSE Returned(reply.value.data),
                <<"registrations">>)

SupabaseService_get_registrations(event_id, user_id, status, env) ==
    IF client = None
    THEN Outcome(Returned(mock_registrations_list), <<>>)
    ELSE LET q0 == Table("registrations", AllColumns, None)
             q1 == IF Truthy(event_id) THEN Eq(q0, "event_id", event_id)
                   ELSE q0
             q2 == IF Truthy(user_id) THEN Eq(q1, "user_id", user_id) ELSE q1
             q3 == IF Truthy(status) THEN Eq(q2, "status", status) ELSE q2
             reply == Execute(q3, env.store, Fault(env, 1), EmptyBag)
         IN  Outcome(IF reply.kind = "raise" THEN reply
                     ELSE Returned(reply.value.data),
                     <<"registrations">>)

\* The event and date filters the three statistics queries share.
Scoped(query, event_column, time_column, event_id, start_date, end_date) ==
    LET q1 == IF Truthy(event_id) THEN Eq(query, event_column, event_id)
              ELSE query
        q2 == IF start_date # NoDate THEN Gte(q1, time_column, start_date)
              ELSE q1
    IN  IF end_date # NoDate THEN Lte(q2, time_column, end_date) ELSE q2

\* response.count if hasattr(response, 'count') else len(response.data)
CountOf(reply) ==
    IF "count" \in DOMAIN reply THEN reply.count
    ELSE Len_(reply.data)

\* Mutant: a failure of the registrations query is raised to the caller.
get_registration_stats_raising(event_id, start_date, end_date, store, fault) ==
    LET reply ==
            Execute(Scoped(Table("registrations", AllColumns, "exact"), "event_id",
                           "created_at", event_id, start_date, end_date),
                    store, fault, EmptyBag)
    IN  IF reply.kind = "raise" THEN reply
        ELSE Returned([total |-> CountOf(reply.value),
                       data |-> reply.value.data])

get_registration_stats(event_id, start_date, end_date, store, fault) ==
    LET reply ==
            Execute(Scoped(Table("registrations", AllColumns, "exact"), "event_id",
                           "created_at", event_id, start_date, end_date),
                    store, fault, EmptyBag)
    IN  IF reply.kind = "raise"
        THEN Returned([total |-> 0, data |-> EmptyBag])
        ELSE Returned([total |-> CountOf(reply.value),
                       data |-> reply.value.data])

RevenueColumns == {"amount", "status", "payment_method"}
Amounts(data) == [p \in DOMAIN data |-> p.amount]

\* Mutant: the revenue query leaves out the status filter.
get_revenue_stats_any_status(event_id, start_date, end_date, store, fault) ==
    LET reply ==
            Execute(Scoped(Table("payments", RevenueColumns, None),
                           "registration.event_id", "created_at",
                           event_id, start_date, end_date),
                    store, fault, EmptyBag)
        data == reply.value.data
    IN  IF reply.kind = "raise"
        THEN Returned([total |-> 0, transaction_count |-> 0,
                       data |-> EmptyBag])
        ELSE Returned([total |-> SumOver(data, DOMAIN data, Amounts(data)),
                       transaction_count |-> Len_(data),
                       data |-> data])

get_revenue_stats(event_id, start_date, end_date, store, fault) ==
    LET reply ==
            Execute(Eq(Scoped(Table("payments", RevenueColumns, None),
                              "registration.event_id", "created_at",
                              event_id, start_date, end_date),
                       "status", "succeeded"),
                    store, fault, EmptyBag)
        data == reply.value.data
    IN  IF reply.kind = "raise"
        THEN Returned([total |-> 0, transaction_count |-> 0,
                       data |-> EmptyBag])
        ELSE Returned([total |-> IF data # EmptyBag
                                 THEN SumOver(data, DOMAIN data, Amounts(data))
                                 ELSE 0,
                       transaction_count |-> IF data # EmptyBag
                                             THEN Len_(data) ELSE 0,
                       data |-> data])

get_attendance_stats(event_id, start_date, end_date, store, fault) ==
    LET reply ==
            Execute(Scoped(Table("event_check_ins", AllColumns, "exact"), "event_id",
                           "checked_in_at", event_id, start_date, end_date),
                    store, fault, EmptyBag)
    IN  IF reply.kind = "raise"
        THEN Returned([total_checked_in |-> 0, data |-> EmptyBag])
        ELSE Returned([total_checked_in |-> CountOf(reply.value),
                       data |-> reply.value.data])

\* The dict literal is evaluated in order; an error out of a statistic would
\* end it there and be raised again by the outer except.
SupabaseService_get_event_analytics(event_id, start_date, end_date, env) ==
    IF client = None
    THEN Outcome(Returned(mock_analytics_data), <<>>)
    ELSE LET registrations ==
                 get_registration_stats(event_id, start_date, end_date,
                                        env.store, Fault(env, 1))
             revenue ==
                 get_revenue_stats(event_id, start_date, end_date,
                                   env.store, Fault(env, 2))
             attendance ==
                 get_attendance_stats(event_id, start_date, end_date,
                                      env.store, Fault(env, 3))
         IN  IF registrations.kind = "raise"
             THEN Outcome(registrations, <<"registrations">>)
             ELSE IF revenue.kind = "raise"
             THEN Outcome(revenue, <<"registrations", "payments">>)
             ELSE IF attendance.kind = "raise"
             THEN Outcome(attendance,
                          <<"registrations", "payments", "event_check_ins">>)
             ELSE Outcome(Returned([registrations |-> registrations.value,
                                    revenue |-> revenue.value,
                                    attendance |-> attendance.value]),
                          <<"registrations", "payments", "event_check_ins">>)

\* Mutant: a failed insert is answered with the mock payment.
create_payment_record_mock_on_error(payment_data, t, env) ==
    IF client = None \/ Fault(env, 1) # NoFault
    THEN Outcome(Returned(mock_payment_response(payment_data, t)),
                 IF client = None THEN <<>> ELSE <<"payments">>)
    ELSE InsertOutcome("payments", payment_data, env)

SupabaseService_create_payment_record(payment_data, t, env) ==
    IF client = None
    THEN Outcome(Returned(mock_payment_response(payment_data, t)), <<>>)
    ELSE InsertOutcome("payments", payment_data, env)

SupabaseService_create_support_ticket(ticket_data, t, env) ==
    IF client = None
    THEN Outcome(Returned(mock_ticket_response(ticket_data, t)), <<>>)
    ELSE InsertOutcome("support_tickets", ticket_data, env)

\* ------------------------------------------------------------ shim inputs

UrlSettings == {None, "", "https://project.supabase.co"}
KeySettings == {None, "", "service-role-key"}

SeqToBag(s) ==
    [r \in Range(s) |-> Cardinality({i \in DOMAIN s : s[i] = r})]
Stores(rows) == {SeqToBag(s) : s \in BoundedSeq(rows, MaxRows)}

EventRows ==
    {EventRow(id, status, event_type) :
        id \in EventIds, status \in {"published", "draft"},
        event_type \in {"SPL", "SQ"}}
RegistrationRows ==
    {RegistrationRow(e, at) : e \in EventIds, at \in Times}
PaymentRows ==
    {PaymentRow(e, at, status) :
        e \in EventIds, at \in Times, status \in {"succeeded", "pending"}}
CheckInRows == {CheckInRow(e, at) : e \in EventIds, at \in Times}

\* id is the events table's key: no two of its rows share one.
EventStores ==
    {store \in Stores(EventRows) :
        \A r \in DOMAIN store :
            /\ store[r] = 1
            /\ \A q \in DOMAIN store : q.id = r.id => q = r}
RegistrationStores == Stores(RegistrationRows)
AnalyticsStores ==
    Stores(RegistrationRows \cup PaymentRows \cup CheckInRows)

\* Dict arguments of the create operations; the second of each carries keys
\* the mock response sets too.
CallerStamp == IsoFormat(-1)
EventData ==
    { [name |-> "Bass Wars", event_type |-> "SPL"],
      [id |-> <<"evt_caller_", Timestamp(0)>>, name |-> "Bass Wars",
       status |-> "published", created_at |-> CallerStamp,
       updated_at |-> CallerStamp] }
RegistrationData ==
    { [event_id |-> "evt_a", user_id |-> "user_1"],
      [id |-> <<"reg_caller_", Timestamp(0)>>, event_id |-> "evt_a",
       status |-> "confirmed", created_at |-> CallerStamp] }
PaymentData ==
    { [registration_id |-> "reg_001", amount |-> 25],
      [id |-> <<"pay_caller_", Timestamp(0)>>, amount |-> 25,
       status |-> "pending", processed_at |-> CallerStamp] }
TicketData ==
    { [subject |-> "Refund", priority |-> "high"],
      [id |-> <<"tkt_caller_", Timestamp(0)>>, subject |-> "Refund",
       status |-> "closed", created_at |-> CallerStamp] }

EventIdArgs == {None, "", "evt_a"}
\* EventAnalytics.metrics of the request served: its default, or one metric.
MetricLists == {EventAnalyticsDefaults.metrics, <<"revenue">>}
StartDates == {NoDate, 2}
EndDates == {NoDate, 1, 2}
ShimLimits == 0 .. MaxLimit

\* The remote's part in a call: nothing in mock mode, where it is not asked.
InsertEnvironments ==
    IF client = None THEN {NoRemote}
    ELSE {Environment(EmptyBag, <<fault>>, echo, EmptyBag) :
             fault \in Errors \cup {NoFault}, echo \in BOOLEAN}
QueryEnvironments(stores) ==
    IF client = None THEN {NoRemote}
    ELSE {Environment(store, <<fault>>, FALSE, EmptyBag) :
             store \in stores, fault \in Errors \cup {NoFault}}
AnalyticsEnvironments ==
    IF client = None THEN {NoRemote}
    ELSE {Environment(store, faults, FALSE, EmptyBag) :
             store \in AnalyticsStores,
             faults \in [1..3 -> {NoFault, "APIError"}]}

NoCall == [op |-> "", args |-> EmptyDict, serving |-> <<>>]

\* ========================================================= the agent wrapper
\* mcp-use-agents/agents/car_audio_agent.py.  The chat models, MCPClient and
\* MCPAgent belong to the runtime: what MCPAgent.astream produces and when a
\* session opens are inputs.

MaxChunks == 2     \* chunks the runtime produces for one stream
MaxCloses == 2     \* close() calls followed

NoArguments == [llm_provider |-> "", model |-> None, config_file |-> None]
NoLlm == [class |-> "", model |-> ""]
Stop == "StopAsyncIteration"        \* the runtime's iterator is exhausted
RuntimeErrors == {"RuntimeError", "TimeoutError"}
Pending == [kind |-> "pending"]

NoStream ==
    /\ inflight = "none"
    /\ chunks = <<>>
    /\ ending = Stop
    /\ cursor = 0
    /\ stage = "loop"
    /\ yielded = <<>>
    /\ completion = Pending

\* f"\n\nFinal Result: {chunk['output']}"
FinalResult(output) == <<"\n\nFinal Result: ", output>>

\* Mutant: after a chunk's messages its output is not looked at.
stream_after_messages_skips_output(chunk) == <<>>

\* stream, resumed after yielding a chunk's messages: what it yields next
\* for that chunk.
stream_after_messages(chunk) ==
    IF "output" \in DOMAIN chunk THEN <<FinalResult(chunk.output)>> ELSE <<>>

\* stream, given the next chunk: what it yields first for it.
stream_on_chunk(chunk) ==
    IF "messages" \in DOMAIN chunk THEN <<chunk.messages>>
    ELSE stream_after_messages(chunk)

\* The servers of the MCP configuration: the default one, and one more a
\* configuration file may name.
Servers == {"car-audio-api", "filesystem"}

\* What __init__ leaves behind once the chat model is chosen.
Constructed(class, model, config_file) ==
    [constructed |-> "yes",
     llm |-> [class |-> class, model |-> model],
     built |-> <<class,
                 IF Truthy(config_file) THEN "MCPClient.from_config_file"
                 ELSE "MCPClient.from_dict",
                 "MCPAgent">>]

\* Mutant: a provider that is not known is given the OpenAI chat model.
CarAudioEventsAgent_init_lenient(llm_provider, model, config_file) ==
    IF llm_provider = "anthropic"
    THEN Constructed("ChatAnthropic",
                     IF Truthy(model) THEN model
                     ELSE "claude-3-5-sonnet-20240620",
                     config_file)
    ELSE Constructed("ChatOpenAI",
                     IF Truthy(model) THEN model ELSE "gpt-4o", config_file)

CarAudioEventsAgent_init(llm_provider, model, config_file) ==
    IF llm_provider = "openai"
    THEN Constructed("ChatOpenAI",
                     IF Truthy(model) THEN model ELSE "gpt-4o", config_file)
    ELSE IF llm_provider = "anthropic"
    THEN Constructed("ChatAnthropic",
                     IF Truthy(model) THEN model
                     ELSE "claude-3-5-sonnet-20240620",
                     config_file)
    ELSE [constructed |-> "ValueError", llm |-> NoLlm, built |-> <<>>]

\* Mutant: close_all_sessions is called whether or not a session is open.
close_always(open) == [sessions |-> {}, close_all_sessions |-> 1]

\* close(): the sessions left open, and the close_all_sessions() calls made.
close(open) ==
    IF open # {} THEN [sessions |-> {}, close_all_sessions |-> 1]
    ELSE [sessions |-> open, close_all_sessions |-> 0]

\* ------------------------------------------------------------ agent inputs

ChunkKeys == {{"messages"}, {"output"}, {"messages", "output"}, {"steps"}}
\* The i-th chunk of a stream, holding the given keys.
Chunk(keys, i) == [k \in keys |-> <<k, i>>]
ChunkSeqs ==
    {[i \in DOMAIN ks |-> Chunk(ks[i], i)] :
        ks \in BoundedSeq(ChunkKeys, MaxChunks)}
Endings == RuntimeErrors \cup {Stop}

Providers == {"openai", "anthropic", "OpenAI", "gemini"}
Models == {None, "", "gpt-4o-mini", "claude-3-opus-20240229"}
ConfigFiles == {None, "", "configs/car_audio_mcp.json"}
ConstructorCalls ==
    [llm_provider : Providers, model : Models, config_file : ConfigFiles,
     max_steps : {10, 30}, use_server_manager : BOOLEAN]

\* ----------------------------------------------------------------- actions

\* No agent wrapper has been constructed.
NoAgent ==
    /\ ctor = NoArguments
    /\ constructed = "no"
    /\ llm = NoLlm
    /\ built = <<>>
    /\ sessions = {}
    /\ closes = [calls |-> 0, close_all_sessions |-> 0]
    /\ NoStream

\* No client's memory is followed.
NothingObserved ==
    /\ listed = <<>>
    /\ created = <<>>

\* The endpoint layer never constructs or calls the shim.
ShimUnused ==
    /\ supabase_url = None
    /\ supabase_key = None
    /\ client = SupabaseService_init(None, None)
    /\ shim_phase = "idle"
    /\ shim_call = NoCall
    /\ remote = NoRemote
    /\ remote_calls = <<>>
    /\ result = NoResult

Init ==
    /\ expected_token \in Tokens
    /\ bearer_refusal \in BearerRefusals
    /\ clock = 0
    /\ phase = "idle"
    /\ request = NoRequest
    /\ response = NoResponse
    /\ log = <<>>
    /\ ShimUnused
    /\ NothingObserved
    /\ NoAgent

\* One request answered: Serve's response and log lines become visible.  The
\* body sent is the payload without the fields in om.
Answer(route, cred, payload, om, query) ==
    LET req == [route |-> route, credentials |-> cred,
                body |-> Without(payload, om), query |-> query]
    IN  /\ phase' = "done"
        /\ request' = req
        /\ response' = Serve(req, clock).response
        /\ log' = Serve(req, clock).log
        /\ UNCHANGED <<expected_token, bearer_refusal, clock, shimVars, observerVars,
                   agentVars>>

Get(route, query) == Answer(route, NoCredentials, EmptyDict, {}, query)

Post(route, payloads) ==
    \E cred \in Credentials, p \in payloads :
        \E om \in Omissions(DOMAIN p) :
            Answer(route, cred, p, om, EmptyDict)

RootRequest ==
    /\ phase = "idle"
    /\ Get(GetRoot, EmptyDict)

HealthRequest ==
    /\ phase = "idle"
    /\ Get(GetHealth, EmptyDict)

CreateEventRequest ==
    /\ phase = "idle"
    /\ Post(PostEvents, EventPayloads)

ListEventsRequest ==
    /\ phase = "idle"
    /\ \E q \in EventQueries : Get(GetEvents, q)

RegisterCompetitorRequest ==
    /\ phase = "idle"
    /\ Post(PostRegistrations, RegistrationPayloads)

AnalyticsRequest ==
    /\ phase = "idle"
    /\ Post(PostAnalytics, AnalyticsPayloads)

PaymentRequest ==
    /\ phase = "idle"
    /\ Post(PostPayments, PaymentPayloads)

SupportTicketRequest ==
    /\ phase = "idle"
    /\ Post(PostSupport, TicketPayloads)

\* The response is sent; nothing of the request stays behind.
Deliver ==
    /\ phase = "done"
    /\ phase' = "idle"
    /\ request' = NoRequest
    /\ response' = NoResponse
    /\ log' = <<>>
    /\ UNCHANGED <<expected_token, bearer_refusal, clock, shimVars, observerVars,
                   agentVars>>

Tick ==
    /\ clock < MaxClock
    /\ clock' = clock + 1
    /\ UNCHANGED <<apiVars, shimVars, observerVars, agentVars>>

Next ==
    \/ RootRequest
    \/ HealthRequest
    \/ CreateEventRequest
    \/ ListEventsRequest
    \/ RegisterCompetitorRequest
    \/ AnalyticsRequest
    \/ PaymentRequest
    \/ SupportTicketRequest
    \/ Deliver
    \/ Tick

Spec == Init /\ [][Next]_vars

\* ------------------------------------------------------------ shim actions

\* The module-level singleton is constructed from the environment.
ShimInit ==
    /\ clock = 0
    /\ expected_token = DefaultToken
    /\ bearer_refusal = 403
    /\ phase = "idle"
    /\ request = NoRequest
    /\ response = NoResponse
    /\ log = <<>>
    /\ supabase_url \in UrlSettings
    /\ supabase_key \in KeySettings
    /\ client = SupabaseService_init(supabase_url, supabase_key)
    /\ shim_phase = "idle"
    /\ shim_call = NoCall
    /\ remote = NoRemote
    /\ remote_calls = <<>>
    /\ result = NoResult
    /\ NothingObserved
    /\ NoAgent

\* One call of a shim operation, with what the remote did during it.
\* serving is the metrics list of the request an analytics call is made for;
\* the operation has no parameter for it.
CalledFor(op, args, serving, env, outcome) ==
    /\ shim_phase' = "done"
    /\ shim_call' = [op |-> op, args |-> args, serving |-> serving]
    /\ remote' = env
    /\ remote_calls' = outcome.calls
    /\ result' = outcome.result
    /\ UNCHANGED <<supabase_url, supabase_key, client, clock, apiVars,
                   observerVars, agentVars>>

Called(op, args, env, outcome) == CalledFor(op, args, <<>>, env, outcome)

CreateEventCall ==
    /\ shim_phase = "idle"
    /\ \E data \in EventData, env \in InsertEnvironments :
           Called("create_event", [event_data |-> data], env,
                  SupabaseService_create_event(data, clock, env))

GetEventsCall ==
    /\ shim_phase = "idle"
    /\ \E status \in {None, "", "published"}, event_type \in {None, "SPL"},
          limit \in ShimLimits, env \in QueryEnvironments(EventStores) :
           \E page \in Limited(Matching(env.store,
                                        get_events_query(status, event_type,
                                                         limit)),
                               limit) :
               Called("get_events",
                      [status |-> status, event_type |-> event_type,
                       limit |-> limit],
                      [env EXCEPT !.page = page],
                      SupabaseService_get_events(status, event_type, limit,
                                                 [env EXCEPT !.page = page]))

GetEventByIdCall ==
    /\ shim_phase = "idle"
    /\ \E event_id \in EventIds \cup {"evt_none"},
          env \in QueryEnvironments(EventStores) :
           Called("get_event_by_id", [event_id |-> event_id], env,
                  SupabaseService_get_event_by_id(event_id, env))

CreateRegistrationCall ==
    /\ shim_phase = "idle"
    /\ \E data \in RegistrationData, env \in InsertEnvironments :
           Called("create_registration", [registration_data |-> data], env,
                  SupabaseService_create_registration(data, clock, env))

GetRegistrationsCall ==
    /\ shim_phase = "idle"
    /\ \E event_id \in EventIdArgs, user_id \in {None, "user_1"},
          status \in {None, "confirmed", "cancelled"},
          env \in QueryEnvironments(RegistrationStores) :
           Called("get_registrations",
                  [event_id |-> event_id, user_id |-> user_id,
                   status |-> status],
                  env,
                  SupabaseService_get_registrations(event_id, user_id, status,
                                                    env))

GetEventAnalyticsCall ==
    /\ shim_phase = "idle"
    /\ \E event_id \in EventIdArgs, start_date \in StartDates,
          end_date \in EndDates, metrics \in MetricLists,
          env \in AnalyticsEnvironments :
           CalledFor("get_event_analytics",
                  [event_id |-> event_id, start_date |-> start_date,
                   end_date |-> end_date],
                  metrics, env,
                  SupabaseService_get_event_analytics(event_id, start_date,
                                                      end_date, env))

CreatePaymentRecordCall ==
    /\ shim_phase = "idle"
    /\ \E data \in PaymentData, env \in InsertEnvironments :
           Called("create_payment_record", [payment_data |-> data], env,
                  SupabaseService_create_payment_record(data, clock, env))

CreateSupportTicketCall ==
    /\ shim_phase = "idle"
    /\ \E data \in TicketData, env \in InsertEnvironments :
           Called("create_support_ticket", [ticket_data |-> data], env,
                  SupabaseService_create_support_ticket(data, clock, env))

\* The caller has the outcome; the shim keeps nothing of the call.
Return ==
    /\ shim_phase = "done"
    /\ shim_phase' = "idle"
    /\ shim_call' = NoCall
    /\ remote' = NoRemote
    /\ remote_calls' = <<>>
    /\ result' = NoResult
    /\ UNCHANGED <<supabase_url, supabase_key, client, clock, apiVars,
                   observerVars, agentVars>>

\* The clock is read by the mock responses only.
MockTick ==
    /\ client = None
    /\ shim_phase = "idle"
    /\ clock < MaxClock
    /\ clock' = clock + 1
    /\ UNCHANGED <<apiVars, shimVars, observerVars, agentVars>>

ShimNext ==
    \/ CreateEventCall
    \/ GetEventsCall
    \/ GetEventByIdCall
    \/ CreateRegistrationCall
    \/ GetRegistrationsCall
    \/ GetEventAnalyticsCall
    \/ CreatePaymentRecordCall
    \/ CreateSupportTicketCall
    \/ Return
    \/ MockTick

ShimSpec == ShimInit /\ [][ShimNext]_vars

\* ------------------------------------------------------ a client's session
\* The endpoint layer again, one authorized client sending complete requests
\* and remembering what it was sent: the last listing, and the last record
\* created after that listing.

SessionQueries ==
    {q \in EventQueries :
        /\ q.status \in {None, "published", "draft"}
        /\ q.event_type \in {None, "SPL"}
        /\ q.limit \in {1, MaxLimit}}

CreatePayloads(route) ==
    CASE route = PostEvents -> EventPayloads
      [] route = PostRegistrations -> RegistrationPayloads
      [] route = PostPayments -> PaymentPayloads
      [] route = PostSupport -> TicketPayloads

SessionInit ==
    /\ clock = 0
    /\ expected_token = DefaultToken
    /\ bearer_refusal = 403
    /\ phase = "idle"
    /\ request = NoRequest
    /\ response = NoResponse
    /\ log = <<>>
    /\ ShimUnused
    /\ NothingObserved
    /\ NoAgent

SessionAnswer(route, payload, query) ==
    LET req == [route |-> route, credentials |-> DefaultToken,
                body |-> payload, query |-> query]
    IN  /\ phase' = "done"
        /\ request' = req
        /\ response' = Serve(req, clock).response
        /\ log' = Serve(req, clock).log
        /\ UNCHANGED <<expected_token, bearer_refusal, clock, shimVars,
                       observerVars, agentVars>>

SessionCreate ==
    /\ phase = "idle"
    /\ \E route \in CreateRoutes :
           \E payload \in CreatePayloads(route) :
               SessionAnswer(route, payload, EmptyDict)

SessionList ==
    /\ phase = "idle"
    /\ \E q \in SessionQueries : SessionAnswer(GetEvents, EmptyDict, q)

\* The client receives the response and remembers it.
SessionDeliver ==
    /\ phase = "done"
    /\ phase' = "idle"
    /\ request' = NoRequest
    /\ response' = NoResponse
    /\ log' = <<>>
    /\ listed' = IF request.route = GetEvents
                 THEN <<[query |-> request.query, body |-> response.body]>>
                 ELSE listed
    /\ created' = IF request.route = GetEvents THEN <<>>
                  ELSE <<[route |-> request.route, clock |-> clock,
                          sent |-> request.body, body |-> response.body]>>
    /\ UNCHANGED <<expected_token, bearer_refusal, clock, shimVars, agentVars>>

\* Time passes between requests.
SessionTick ==
    /\ phase = "idle"
    /\ clock < MaxClock
    /\ clock' = clock + 1
    /\ UNCHANGED <<apiVars, shimVars, observerVars, agentVars>>

SessionNext ==
    \/ SessionCreate
    \/ SessionList
    \/ SessionDeliver
    \/ SessionTick

SessionSpec == SessionInit /\ [][SessionNext]_vars

\* ---------------------------------------------------------- agent actions

\* An agent constructed as example_streaming does, no session open yet.
AgentInit ==
    /\ clock = 0
    /\ expected_token = DefaultToken
    /\ bearer_refusal = 403
    /\ phase = "idle"
    /\ request = NoRequest
    /\ response = NoResponse
    /\ log = <<>>
    /\ ShimUnused
    /\ NothingObserved
    /\ ctor = [llm_provider |-> "openai", model |-> None,
               config_file |-> None]
    /\ constructed = CarAudioEventsAgent_init("openai", None, None).constructed
    /\ llm = CarAudioEventsAgent_init("openai", None, None).llm
    /\ built = CarAudioEventsAgent_init("openai", None, None).built
    /\ sessions = {}
    /\ closes = [calls |-> 0, close_all_sessions |-> 0]
    /\ NoStream

restOfAgent == <<clock, apiVars, shimVars, observerVars, initVars>>

\* agent.stream(query) is first pulled: the runtime's astream is set up.
StartStream ==
    /\ inflight = "none"
    /\ \E cs \in ChunkSeqs, e \in Endings :
           /\ inflight' = "stream"
           /\ chunks' = cs
           /\ ending' = e
    /\ UNCHANGED <<cursor, stage, yielded, completion, sessions, closes,
                   restOfAgent>>

\* The runtime produces the next chunk and stream runs to its next yield,
\* or back to the head of its loop.
PullChunk ==
    /\ inflight = "stream"
    /\ completion = Pending
    /\ stage = "loop"
    /\ cursor < Len(chunks)
    /\ yielded' = yielded \o stream_on_chunk(chunks[cursor + 1])
    /\ stage' = IF "messages" \in DOMAIN chunks[cursor + 1] THEN "messages"
                ELSE "loop"
    /\ cursor' = IF "messages" \in DOMAIN chunks[cursor + 1] THEN cursor
                 ELSE cursor + 1
    /\ UNCHANGED <<inflight, chunks, ending, completion, sessions, closes,
                   restOfAgent>>

\* The consumer resumes stream after a chunk's messages.
ResumeAfterMessages ==
    /\ inflight = "stream"
    /\ stage = "messages"
    /\ yielded' = yielded \o stream_after_messages(chunks[cursor + 1])
    /\ stage' = "loop"
    /\ cursor' = cursor + 1
    /\ UNCHANGED <<inflight, chunks, ending, completion, sessions, closes,
                   restOfAgent>>

\* The runtime has no further chunk: it is exhausted, or raises, and the
\* except clause raises the error again.
EndOfStream ==
    /\ inflight = "stream"
    /\ completion = Pending
    /\ stage = "loop"
    /\ cursor = Len(chunks)
    /\ completion' = IF ending = Stop THEN [kind |-> "exhausted"]
                     ELSE Raised(ending)
    /\ UNCHANGED <<inflight, chunks, ending, cursor, stage, yielded, sessions,
                   closes, restOfAgent>>

\* agent.run(query) awaits the runtime.
StartRun ==
    /\ inflight = "none"
    /\ inflight' = "run"
    /\ UNCHANGED <<chunks, ending, cursor, stage, yielded, completion,
                   sessions, closes, restOfAgent>>

\* The runtime's run returns its result, or raises and run raises it again.
EndOfRun ==
    /\ inflight = "run"
    /\ completion = Pending
    /\ \E end \in {Returned("result")} \cup {Raised(e) : e \in RuntimeErrors} :
           completion' = end
    /\ UNCHANGED <<inflight, chunks, ending, cursor, stage, yielded, sessions,
                   closes, restOfAgent>>

\* The caller has the result, the error, or the end of the stream.
Settle ==
    /\ completion # Pending
    /\ inflight' = "none"
    /\ chunks' = <<>>
    /\ ending' = Stop
    /\ cursor' = 0
    /\ stage' = "loop"
    /\ yielded' = <<>>
    /\ completion' = Pending
    /\ UNCHANGED <<sessions, closes, restOfAgent>>

\* The runtime connects to a server for a run or stream in flight.
OpenSession ==
    /\ inflight # "none"
    /\ completion = Pending
    /\ \E server \in Servers \ sessions : sessions' = sessions \cup {server}
    /\ UNCHANGED <<closes, streamVars, restOfAgent>>

\* agent.close(), from any task and at any time.
Close ==
    /\ constructed = "yes"
    /\ closes.calls < MaxCloses
    /\ sessions' = close(sessions).sessions
    /\ closes' = [calls |-> closes.calls + 1,
                  close_all_sessions |->
                      closes.close_all_sessions
                          + close(sessions).close_all_sessions]
    /\ UNCHANGED <<streamVars, restOfAgent>>

AgentNext ==
    \/ StartStream
    \/ PullChunk
    \/ ResumeAfterMessages
    \/ EndOfStream
    \/ StartRun
    \/ EndOfRun
    \/ Settle
    \/ OpenSession
    \/ Close

AgentSpec == AgentInit /\ [][AgentNext]_vars

\* ------------------------------------------------------ agent construction

ConstructInit ==
    /\ clock = 0
    /\ expected_token = DefaultToken
    /\ bearer_refusal = 403
    /\ phase = "idle"
    /\ request = NoRequest
    /\ response = NoResponse
    /\ log = <<>>
    /\ ShimUnused
    /\ NothingObserved
    /\ NoAgent

restOfConstruct ==
    <<clock, apiVars, shimVars, observerVars, sessions, closes, streamVars>>

\* CarAudioEventsAgent(llm_provider, model, config_file, ...)
Construct ==
    /\ constructed = "no"
    /\ \E call \in ConstructorCalls :
           LET made == CarAudioEventsAgent_init(call.llm_provider, call.model,
                                                call.config_file)
           IN  /\ ctor' = call
               /\ constructed' = made.constructed
               /\ llm' = made.llm
               /\ built' = made.built
    /\ UNCHANGED restOfConstruct

\* The caller drops the agent, or has caught the error.
Discard ==
    /\ constructed # "no"
    /\ ctor' = NoArguments
    /\ constructed' = "no"
    /\ llm' = NoLlm
    /\ built' = <<>>
    /\ UNCHANGED restOfConstruct

ConstructNext ==
    \/ Construct
    \/ Discard

ConstructSpec == ConstructInit /\ [][ConstructNext]_vars


\* =========================================================== endpoint claims

Answered == phase = "done"
Challenge == <<"WWW-Authenticate", "Bearer">>
LacksRequired == RequiredFields(request.route) \ DOMAIN request.body # {}
HandlerRan == log # <<>> \/ response.status \in {200, 500}
\* The key under which a create route returns its synthesized record.
RecordKey(route) ==
    CASE route = PostEvents -> "event"
      [] route = PostRegistrations -> "registration"
      [] route = PostPayments -> "payment"
      [] route = PostSupport -> "ticket"
HasRecord ==
    \E route \in CreateRoutes : RecordKey(route) \in DOMAIN response.body

\* C1: on every authenticated route a request whose bearer token is missing
\* or is not the expected token is answered 401 with a WWW-Authenticate:
\* Bearer header, and the handler body does not run (nothing is logged, no
\* record is synthesized).
C1_BadTokenIs401 ==
    (Answered /\ request.route \in AuthenticatedRoutes
              /\ request.credentials # expected_token)
        => /\ response.status = 401
           /\ Challenge \in response.headers
           /\ ~HandlerRan
           /\ ~HasRecord

\* C1, the refused request without credentials that the claim is about.
C1_MissingTokenRefused ==
    /\ Answered
    /\ request.route \in AuthenticatedRoutes
    /\ request.credentials = NoCredentials
    /\ ~HandlerRan

\* C2 as stated: a POST body that lacks a required field is answered with a
\* validation failure, whatever else the request carries.
C2_MissingFieldIsValidationFailure ==
    (Answered /\ request.route \in AuthenticatedRoutes /\ LacksRequired)
        => /\ response.status = 422
           /\ ~HandlerRan

\* C2, amended: a POST body that lacks a required field is never answered
\* 500 and never reaches the handler (so not its except branch); sent with the
\* expected token it is answered 422 naming the missing fields, and otherwise
\* it is refused by the token check, which comes first.
C2_MissingFieldNever500 ==
    (Answered /\ request.route \in AuthenticatedRoutes /\ LacksRequired)
        => /\ response.status # 500
           /\ ~HandlerRan
           /\ \A i \in DOMAIN log : log[i][1] # "error"
           /\ request.credentials = expected_token
                => /\ response.status = 422
                   /\ response.body.detail =
                          RequiredFields(request.route) \ DOMAIN request.body
           /\ request.credentials # expected_token
                => response.status \in {401, 403}

C2_Witness ==
    /\ Answered
    /\ request.route = PostEvents
    /\ LacksRequired
    /\ request.credentials = expected_token
    /\ response.status = 422

\* "Supplied" in C3 is the code's test of the parameter: given and not empty.
Supplied(x) == x \notin {None, ""}
C3_Matching(q) ==
    {i \in DOMAIN SeededEvents :
        /\ Supplied(q.status) => SeededEvents[i].status = q.status
        /\ Supplied(q.event_type) => SeededEvents[i].type = q.event_type}

\* C3: GET /api/events with a limit >= 0 returns the first min(limit, m) of
\* the m seeded events that match the supplied status and event_type, in seed
\* order; status=published, event_type=SPL, limit=1 returns exactly one record,
\* published and SPL.
C3_ListEventsFiltersThenLimits ==
    (Answered /\ request.route = GetEvents /\ request.query.limit >= 0)
        => LET q == request.query
               M == C3_Matching(q)
               ev == response.body.events
           IN  /\ response.status = 200
               /\ Len(ev) = Min(q.limit, Cardinality(M))
               /\ \A k \in 1..Len(ev) :
                    \E i \in M : /\ ev[k] = SeededEvents[i]
                                 /\ Cardinality({j \in M : j < i}) = k - 1
               /\ (q.status = "published" /\ q.event_type = "SPL"
                        /\ q.limit = 1)
                    => /\ Len(ev) = 1
                       /\ ev[1].status = "published"
                       /\ ev[1].type = "SPL"

C3_Witness ==
    /\ Answered
    /\ request.route = GetEvents
    /\ request.query = [status |-> "published", event_type |-> "SPL",
                        limit |-> 1]
    /\ Len(response.body.events) = 1

\* C4: the keys of analytics.metrics in an analytics response are the
\* requested metrics that are among registrations, revenue and attendance; a
\* request for ["attendance"] populates neither registrations nor revenue.
C4_MetricsKeysAreRequested ==
    (Answered /\ request.route = PostAnalytics /\ response.status = 200)
        => LET asked == IF "metrics" \in DOMAIN request.body
                        THEN Range(request.body.metrics)
                        ELSE {"registrations", "revenue", "attendance"}
               keys == DOMAIN response.body.analytics.metrics
           IN  /\ keys = asked \cap {"registrations", "revenue", "attendance"}
               /\ asked = {"attendance"}
                    => "registrations" \notin keys /\ "revenue" \notin keys

C4_Witness ==
    /\ Answered
    /\ request.route = PostAnalytics
    /\ "metrics" \in DOMAIN request.body
    /\ request.body.metrics = <<"attendance">>
    /\ response.status = 200
    /\ DOMAIN response.body.analytics.metrics = {"attendance"}

\* C5: every create operation sent with the expected token and a valid
\* payload is answered 200 with success true and a synthesized record that
\* holds every field the caller submitted, a generated id and a timestamp.
C5_CreateReturnsSubmittedFields ==
    (Answered /\ request.route \in CreateRoutes
              /\ request.credentials = expected_token
              /\ ~LacksRequired)
        => /\ response.status = 200
           /\ response.body.success = TRUE
           /\ LET rec == response.body[RecordKey(request.route)]
              IN  /\ "id" \in DOMAIN rec
                  /\ {"created_at", "processed_at"} \cap DOMAIN rec # {}
                  /\ \A f \in DOMAIN request.body :
                        f \in DOMAIN rec /\ rec[f] = request.body[f]

\* C6 as stated: every response carries a boolean success field and a
\* failing request is answered 401 or 500, nothing else.
C6_EveryResponseIsEnvelope ==
    Answered
        => /\ "success" \in DOMAIN response.body
           /\ response.body.success \in BOOLEAN
           /\ response.status # 200 => response.status \in {401, 500}

\* C6, amended: a 200 response of an /api route carries success = TRUE; the
\* responses of GET / and GET /health carry no success field; a failing
\* request is answered with a body holding only a detail, as 401 (the token
\* is not the expected one), 401 or 403 (no credentials) or 422 (a required
\* field is missing), and with no other status.
C6_EnvelopeAndStatuses ==
    Answered
        => /\ response.status \in {200, 401, 403, 422}
           /\ response.status = 200
                => IF request.route \in {GetRoot, GetHealth}
                   THEN "success" \notin DOMAIN response.body
                   ELSE /\ "success" \in DOMAIN response.body
                        /\ response.body.success = TRUE
           /\ response.status # 200 => DOMAIN response.body = {"detail"}
           /\ response.status \in {401, 403}
                <=> /\ request.route \in AuthenticatedRoutes
                    /\ request.credentials # expected_token
           /\ response.status = 403 => request.credentials = NoCredentials
           /\ response.status = 422 => LacksRequired

C6_Witness ==
    /\ Answered
    /\ response.status = 422
    /\ "success" \notin DOMAIN response.body

\* ============================================================ session claims

Record == response.body[RecordKey(request.route)]
CreatedNow ==
    /\ phase = "done"
    /\ request.route \in CreateRoutes
    /\ response.status = 200
IdPrefix(route) ==
    CASE route = PostEvents -> "evt_"
      [] route = PostRegistrations -> "reg_"
      [] route = PostPayments -> "pay_"
      [] route = PostSupport -> "tkt_"
\* The record the client was sent for its previous create request.
Earlier == created[1].body[RecordKey(created[1].route)]

\* C11: the identifier of a created record is made of the prefix of its kind
\* and the clock reading alone, whatever the request holds; so a create
\* request answered at the same clock reading as an earlier one of the same
\* kind is given the identifier the earlier one was given.
C11_IdIsPrefixAndClock ==
    CreatedNow =>
        /\ Record.id = <<IdPrefix(request.route), Timestamp(clock)>>
        /\ (/\ created # <<>>
            /\ created[1].route = request.route
            /\ created[1].clock = clock) => Earlier.id = Record.id

\* C11 witness: two create-event requests with different bodies, answered at
\* the same clock reading, carry the same identifier.
C11_Witness ==
    /\ CreatedNow
    /\ request.route = PostEvents
    /\ created # <<>>
    /\ created[1].route = PostEvents
    /\ created[1].sent # request.body
    /\ Earlier.name # Record.name
    /\ Earlier.id = Record.id


ListedNow ==
    /\ phase = "done"
    /\ request.route = GetEvents
    /\ response.status = 200

\* C17: a listing holds seeded events only, and it is the listing the same
\* query parameters were given before, whatever create requests were
\* answered in between: a created event is never listed.
C17_ListingIgnoresCreates ==
    ListedNow =>
        /\ \A i \in DOMAIN response.body.events :
               response.body.events[i].id \in {"evt_001", "evt_002"}
        /\ (listed # <<>> /\ listed[1].query = request.query) =>
               response.body = listed[1].body

\* C17 witness: a listing, then a successful create-event, then a listing
\* with the same parameters that holds the two seeded events.
C17_Witness ==
    /\ ListedNow
    /\ listed # <<>>
    /\ listed[1].query = request.query
    /\ created # <<>>
    /\ created[1].route = PostEvents
    /\ created[1].body.success
    /\ Len(response.body.events) = 2
    /\ response.body = listed[1].body

\* ========================================================== further claims

Matches == Cardinality(C3_Matching(request.query))

\* C19 as stated: count is the number of matches before the limit, at least
\* the number of events returned, and larger exactly when the limit is
\* smaller than the number of matches.
C19_CountExceedsIffLimitSmaller ==
    ListedNow =>
        /\ response.body.count = Matches
        /\ response.body.count >= Len(response.body.events)
        /\ response.body.count > Len(response.body.events)
               <=> request.query.limit < Matches

\* C19, amended: count is the number of matches before the limit, at least
\* the number of events returned, and larger exactly when there is a match
\* and the limit is smaller than the number of matches (a negative limit
\* with no match returns nothing of nothing).
C19_CountIsMatchesBeforeLimit ==
    ListedNow =>
        /\ response.body.count = Matches
        /\ response.body.count >= Len(response.body.events)
        /\ response.body.count > Len(response.body.events)
               <=> (Matches > 0 /\ request.query.limit < Matches)

\* C19 witness: two events match and the limit is one: count is two, one
\* event is returned.
C19_Witness ==
    /\ ListedNow
    /\ request.query.limit = 1
    /\ Matches = 2
    /\ response.body.count = 2
    /\ Len(response.body.events) = 1

\* ============================================================== agent claims

RECURSIVE ItemsOf(_)
\* What a consumer is owed for a sequence of chunks: chunk by chunk, the
\* messages if there are any, then the final-result marker if there is an
\* output.
ItemsOf(cs) ==
    IF cs = <<>> THEN <<>>
    ELSE LET last == cs[Len(cs)]
         IN  ItemsOf(SubSeq(cs, 1, Len(cs) - 1))
                 \o (IF "messages" \in DOMAIN last THEN <<last.messages>>
                     ELSE <<>>)
                 \o (IF "output" \in DOMAIN last
                     THEN <<<<"\n\nFinal Result: ", last.output>>>>
                     ELSE <<>>)

\* C12: stream yields, in the runtime's chunk order, each chunk's messages
\* and then a final-result marker for its output; a chunk with neither
\* yields nothing; when the runtime raises, the same error reaches the
\* consumer after every item of the chunks produced before it.
C12_StreamYieldsInOrder ==
    inflight = "stream" =>
        /\ yielded =
               ItemsOf(SubSeq(chunks, 1, cursor))
                   \o (IF stage = "messages"
                       THEN <<chunks[cursor + 1].messages>> ELSE <<>>)
        /\ completion # Pending =>
               /\ cursor = Len(chunks)
               /\ stage = "loop"
               /\ completion = IF ending = Stop THEN [kind |-> "exhausted"]
                               ELSE [kind |-> "raise", error |-> ending]

\* C12 witness: the runtime produced a chunk with messages and output, then
\* one with neither, then raised: two items were yielded before the error.
C12_Witness ==
    /\ inflight = "stream"
    /\ Len(chunks) = 2
    /\ DOMAIN chunks[1] = {"messages", "output"}
    /\ DOMAIN chunks[2] = {"steps"}
    /\ completion.kind = "raise"
    /\ yielded = <<chunks[1].messages,
                   <<"\n\nFinal Result: ", chunks[1].output>>>>


\* C13: a close() call calls close_all_sessions, leaving no session open,
\* exactly when a session is open, and otherwise changes nothing (so a close()
\* right after a close() does nothing); in either case the run or stream in
\* flight is left as it was.
C13_CloseOnlyClosesSessions ==
    [][closes'.calls # closes.calls =>
           /\ closes'.calls = closes.calls + 1
           /\ IF sessions # {}
              THEN /\ sessions' = {}
                   /\ closes'.close_all_sessions =
                          closes.close_all_sessions + 1
              ELSE /\ sessions' = sessions
                   /\ closes'.close_all_sessions = closes.close_all_sessions
           /\ UNCHANGED <<streamVars, initVars>>]_vars

\* C13 witness: during a stream that has yielded and not ended, close() has
\* been called twice and close_all_sessions once; no session is open.
C13_Witness ==
    /\ inflight = "stream"
    /\ completion = Pending
    /\ yielded # <<>>
    /\ closes = [calls |-> 2, close_all_sessions |-> 1]
    /\ sessions = {}

\* C14: a constructor call naming provider "openai" builds the OpenAI chat
\* model with the supplied model, or "gpt-4o" if none is supplied; naming
\* "anthropic", the Anthropic chat model with the supplied model, or
\* "claude-3-5-sonnet-20240620"; naming anything else it raises the
\* unsupported-provider error with no chat model, client or agent built.
C14_ProviderChoosesModel ==
    constructed # "no" =>
        CASE ctor.llm_provider = "openai" ->
                 /\ constructed = "yes"
                 /\ llm = [class |-> "ChatOpenAI",
                           model |-> IF ctor.model \in {None, ""}
                                     THEN "gpt-4o" ELSE ctor.model]
          [] ctor.llm_provider = "anthropic" ->
                 /\ constructed = "yes"
                 /\ llm = [class |-> "ChatAnthropic",
                           model |-> IF ctor.model \in {None, ""}
                                     THEN "claude-3-5-sonnet-20240620"
                                     ELSE ctor.model]
          [] OTHER ->
                 /\ constructed = "ValueError"
                 /\ llm = NoLlm
                 /\ built = <<>>

\* C14 witness: a call naming provider "gemini" with a model and a
\* configuration file has raised, with nothing built.
C14_Witness ==
    /\ ctor.llm_provider = "gemini"
    /\ ctor.model = "gpt-4o-mini"
    /\ ctor.config_file = "configs/car_audio_mcp.json"
    /\ constructed = "ValueError"
    /\ built = <<>>

\* =============================================================== shim claims

ShimDone == shim_phase = "done"
LiveMode == client # None
CredentialsAbsent == ~Truthy(supabase_url) \/ ~Truthy(supabase_key)
ShimOperations ==
    {"create_event", "get_events", "get_event_by_id", "create_registration",
     "get_registrations", "get_event_analytics", "create_payment_record",
     "create_support_ticket"}
\* The operations that re-raise: all but the analytics aggregate.
ReraisingOperations == ShimOperations \ {"get_event_analytics"}
StatisticKeys == {"registrations", "revenue", "attendance"}

\* C7: the mode is fixed at construction and never changes: with the store
\* URL or the service key absent the client is None, and then every
\* operation returns a value (its mock), never raises, and runs no remote
\* call; with both present the client stays a live one.
C7_MockModeIsFixedAndLocal ==
    /\ client = IF CredentialsAbsent THEN None ELSE Client
    /\ (CredentialsAbsent /\ ShimDone) =>
           /\ shim_call.op \in ShimOperations
           /\ result.kind = "return"
           /\ remote_calls = <<>>
           /\ remote = NoRemote

\* C7 witness: with a URL but no key, create_event has returned its mock
\* record, stamped with a later clock reading, without a remote call.
C7_Witness ==
    /\ ShimDone
    /\ Truthy(supabase_url)
    /\ supabase_key = None
    /\ shim_call.op = "create_event"
    /\ clock > 0
    /\ result.kind = "return"
    /\ result.value.id = <<"evt_mock_", Timestamp(clock)>>
    /\ remote_calls = <<>>

\* C8: in live mode, when the remote call of a create, list or single-record
\* operation fails, the operation has made exactly one remote call and
\* raises that same error; it neither retries nor answers with a mock.
C8_LiveFailureIsReraisedOnce ==
    (/\ ShimDone
     /\ LiveMode
     /\ shim_call.op \in ReraisingOperations
     /\ Fault(remote, 1) # NoFault) =>
        /\ Len(remote_calls) = 1
        /\ result = Raised(Fault(remote, 1))

\* C8 witness: a live create_payment_record whose insert failed has raised.
C8_Witness ==
    /\ ShimDone
    /\ LiveMode
    /\ shim_call.op = "create_payment_record"
    /\ Fault(remote, 1) = "ConnectionError"
    /\ result.kind = "raise"

\* The rows of a table that the call's event and date arguments select:
\* an argument that is None or empty selects everything.
InScope(table, event_column, time_column) ==
    {r \in DOMAIN remote.store :
        /\ r["table"] = table
        /\ Truthy(shim_call.args.event_id) =>
               r[event_column] = shim_call.args.event_id
        /\ shim_call.args.start_date # NoDate =>
               r[time_column] >= shim_call.args.start_date
        /\ shim_call.args.end_date # NoDate =>
               r[time_column] <= shim_call.args.end_date}

RECURSIVE Copies(_)
\* How many rows of the remote store the set stands for.
Copies(rows) ==
    IF rows = {} THEN 0
    ELSE LET r == CHOOSE x \in rows : TRUE
         IN  remote.store[r] + Copies(rows \ {r})

RECURSIVE AmountOf(_)
AmountOf(rows) ==
    IF rows = {} THEN 0
    ELSE LET r == CHOOSE x \in rows : TRUE
         IN  remote.store[r] * r["amount"] + AmountOf(rows \ {r})

SucceededInScope ==
    {r \in InScope("payments", "registration.event_id", "created_at") :
        r["status"] = "succeeded"}

LiveAnalyticsDone ==
    /\ ShimDone
    /\ LiveMode
    /\ shim_call.op = "get_event_analytics"

\* C9: the live analytics aggregate never raises: it returns the three keys
\* registrations, revenue and attendance; a metric whose query failed holds
\* its zero default, and every other metric holds its real result whatever
\* happened to the others.
C9_FailedMetricsDefaultOthersReal ==
    LiveAnalyticsDone =>
        /\ result.kind = "return"
        /\ DOMAIN result.value = StatisticKeys
        /\ remote_calls = <<"registrations", "payments", "event_check_ins">>
        /\ IF Fault(remote, 1) # NoFault
           THEN result.value.registrations = [total |-> 0, data |-> EmptyBag]
           ELSE result.value.registrations.total =
                    Copies(InScope("registrations", "event_id", "created_at"))
        /\ IF Fault(remote, 2) # NoFault
           THEN result.value.revenue =
                    [total |-> 0, transaction_count |-> 0, data |-> EmptyBag]
           ELSE result.value.revenue.transaction_count =
                    Copies(SucceededInScope)
        /\ IF Fault(remote, 3) # NoFault
           THEN result.value.attendance =
                    [total_checked_in |-> 0, data |-> EmptyBag]
           ELSE result.value.attendance.total_checked_in =
                    Copies(InScope("event_check_ins", "event_id",
                                   "checked_in_at"))

\* C9 witness: the registrations query failed while the store held a
\* registration and a check-in in scope; attendance still counts its row.
C9_Witness ==
    /\ LiveAnalyticsDone
    /\ Fault(remote, 1) # NoFault
    /\ Fault(remote, 3) = NoFault
    /\ InScope("registrations", "event_id", "created_at") # {}
    /\ result.kind = "return"
    /\ result.value.registrations.total = 0
    /\ result.value.attendance.total_checked_in > 0

\* The metric whose dataset a table is.
MetricOfTable(table) ==
    CASE table = "registrations" -> "registrations"
      [] table = "payments" -> "revenue"
      [] table = "event_check_ins" -> "attendance"

\* C15: the live analytics aggregate queries a metric's table only if the
\* metric is named in the metrics list of the request it serves.
C15_QueriesOnlyRequestedMetrics ==
    LiveAnalyticsDone =>
        \A i \in DOMAIN remote_calls :
            MetricOfTable(remote_calls[i]) \in Range(shim_call.serving)

\* C15 witness: serving a request for revenue alone, the aggregate has run
\* three queries.
C15_Witness ==
    /\ LiveAnalyticsDone
    /\ shim_call.serving = <<"revenue">>
    /\ remote_calls = <<"registrations", "payments", "event_check_ins">>

\* C16: the registration count of an answered live query is the number of
\* registration records whose created_at is at or after start_date and at or
\* before end_date, each bound counting only if supplied, and whose event_id
\* is the supplied event_id, if one is supplied.
C16_RegistrationCountInInclusiveRange ==
    (LiveAnalyticsDone /\ Fault(remote, 1) = NoFault) =>
        /\ result.kind = "return"
        /\ result.value.registrations.total =
               Copies({r \in DOMAIN remote.store :
                          /\ r["table"] = "registrations"
                          /\ \/ shim_call.args.event_id \in {None, ""}
                             \/ r["event_id"] = shim_call.args.event_id
                          /\ \/ shim_call.args.start_date = NoDate
                             \/ shim_call.args.start_date <= r["created_at"]
                          /\ \/ shim_call.args.end_date = NoDate
                             \/ r["created_at"] <= shim_call.args.end_date})

\* C16 witness: with both bounds on day 2 and an event given, the store held
\* a registration of that event on day 2, one on day 1 and one of another
\* event; the count is one.
C16_Witness ==
    /\ LiveAnalyticsDone
    /\ Fault(remote, 1) = NoFault
    /\ shim_call.args = [event_id |-> "evt_a", start_date |-> 2,
                         end_date |-> 2]
    /\ RegistrationRow("evt_a", 2) \in DOMAIN remote.store
    /\ \/ RegistrationRow("evt_a", 1) \in DOMAIN remote.store
       \/ RegistrationRow("evt_b", 2) \in DOMAIN remote.store
    /\ result.kind = "return"
    /\ result.value.registrations.total = 1

\* C10: the revenue total of an answered revenue query is the sum of the
\* amounts of the payments that pass the supplied event and date filters and
\* whose status is 'succeeded'; payments in any other status add nothing.
C10_RevenueSumsSucceededOnly ==
    (LiveAnalyticsDone /\ Fault(remote, 2) = NoFault) =>
        /\ result.kind = "return"
        /\ result.value.revenue.total = AmountOf(SucceededInScope)
        /\ \A p \in DOMAIN result.value.revenue.data :
               p.status = "succeeded"

\* C10 witness: a succeeded and a pending payment were both in scope of an
\* event-filtered query, and the total is the succeeded one's amount.
C10_Witness ==
    /\ LiveAnalyticsDone
    /\ Fault(remote, 2) = NoFault
    /\ shim_call.args.event_id = "evt_a"
    /\ SucceededInScope # {}
    /\ \E r \in InScope("payments", "registration.event_id", "created_at") :
           r["status"] = "pending"
    /\ result.kind = "return"
    /\ result.value.revenue.total = Price("evt_a")

MockCreateDone ==
    /\ ShimDone
    /\ ~LiveMode
    /\ shim_call.op \in {"create_event", "create_registration",
                         "create_payment_record", "create_support_ticket"}

\* The dict the create operation was called with.
CallerData ==
    CASE shim_call.op = "create_event" -> shim_call.args.event_data
      [] shim_call.op = "create_registration" ->
             shim_call.args.registration_data
      [] shim_call.op = "create_payment_record" -> shim_call.args.payment_data
      [] shim_call.op = "create_support_ticket" -> shim_call.args.ticket_data

\* What the mock of each kind synthesizes besides the identifier.
Synthesized ==
    CASE shim_call.op = "create_event" ->
             [created_at |-> <<"isoformat", clock>>,
              updated_at |-> <<"isoformat", clock>>]
      [] shim_call.op = "create_registration" ->
             [status |-> "pending_payment",
              created_at |-> <<"isoformat", clock>>]
      [] shim_call.op = "create_payment_record" ->
             [status |-> "succeeded", processed_at |-> <<"isoformat", clock>>]
      [] shim_call.op = "create_support_ticket" ->
             [status |-> "open", created_at |-> <<"isoformat", clock>>]

MockIdPrefix ==
    CASE shim_call.op = "create_event" -> "evt_mock_"
      [] shim_call.op = "create_registration" -> "reg_mock_"
      [] shim_call.op = "create_payment_record" -> "pay_mock_"
      [] shim_call.op = "create_support_ticket" -> "tkt_mock_"

\* C20: a mock create response holds the caller's id if the caller gave one
\* and the generated one otherwise; under every key its mock synthesizes
\* (status, created_at, updated_at, processed_at, as the kind has them) the
\* synthesized value, whatever the caller gave; and every other field of the
\* caller unchanged; it holds nothing else.
C20_MockMergeOrder ==
    MockCreateDone =>
        /\ result.kind = "return"
        /\ DOMAIN result.value =
               {"id"} \cup DOMAIN CallerData \cup DOMAIN Synthesized
        /\ \A k \in DOMAIN result.value :
               result.value[k] =
                   IF k \in DOMAIN Synthesized THEN Synthesized[k]
                   ELSE IF k \in DOMAIN CallerData THEN CallerData[k]
                   ELSE <<MockIdPrefix, <<"timestamp", clock>>>>

\* C20 witness: a registration given with its own id, status and created_at
\* comes back with that id, status "pending_payment" and the clock's
\* created_at, its event_id unchanged.
C20_Witness ==
    /\ MockCreateDone
    /\ shim_call.op = "create_registration"
    /\ clock > 0
    /\ {"id", "status", "created_at"} \subseteq DOMAIN CallerData
    /\ result.value.id = CallerData.id
    /\ CallerData.status = "confirmed"
    /\ result.value.status = "pending_payment"
    /\ result.value.created_at # CallerData.created_at
    /\ result.value.event_id = CallerData.event_id

\* A mock-mode listing has returned.
MockListDone ==
    /\ ShimDone
    /\ ~LiveMode
    /\ shim_call.op \in {"get_events", "get_registrations"}

\* C21: in mock mode get_events returns the two mock events and
\* get_registrations the one mock registration, in the same order and with
\* the same fields, whatever status, event_type, event_id, user_id and limit
\* the call was given.
C21_MockListsIgnoreArguments ==
    MockListDone =>
        /\ result.kind = "return"
        /\ shim_call.op = "get_events" =>
               /\ Len(result.value) = 2
               /\ result.value[1] =
                      [id |-> "evt_001", name |-> "Mock Bass Championship",
                       event_type |-> "SPL", start_date |-> "2025-06-15",
                       location |-> "Miami, FL", status |-> "published"]
               /\ result.value[2] =
                      [id |-> "evt_002", name |-> "Mock SQ Masters",
                       event_type |-> "SQ", start_date |-> "2025-07-20",
                       location |-> "Atlanta, GA", status |-> "published"]
        /\ shim_call.op = "get_registrations" =>
               result.value =
                   << [id |-> "reg_001", event_id |-> "evt_001",
                       competitor_name |-> "John Doe",
                       status |-> "confirmed"] >>

\* C21 witness: get_events asked for one "SPL" event has returned two
\* events, the second of type "SQ".
C21_Witness ==
    /\ MockListDone
    /\ shim_call.op = "get_events"
    /\ shim_call.args.event_type = "SPL"
    /\ shim_call.args.limit = 1
    /\ Len(result.value) > shim_call.args.limit
    /\ result.value[2].event_type # shim_call.args.event_type

====
